---- MODULE Spec2Model ----
(***************************************************************************)
(* Union-type algebra (src/src/ty/union.rs) and while-statement execution  *)
(* (src/src/nodes/stmt/while_statement.rs) of the simple_ts analyzer.      *)
(*                                                                         *)
(* A Ty is a record [k |-> kind, v |-> payload]: the payload is an id for  *)
(* the kinds that carry one, a BOOLEAN for BooleanLiteral, the referenced  *)
(* UnionType for Union, and 0 otherwise.                                   *)
(***************************************************************************)
EXTENDS Integers, Sequences, FiniteSets, TLC

VARIABLES
    builder,    \* the UnionTypeBuilder being fed
    built,      \* what the last build() returned (NoTy before the first)
    nadds,      \* number of add calls made so far
    last,       \* the type handed to the last add call (NoTy before the first)
    args,       \* the member list handed to into_union
    ret,        \* what into_union returned (NoTy before the call)
    aux,        \* results of the companion calls made after it
    pc,         \* position of the driver of the facade calls
    resolver,   \* the per-type property resolver (get_property)
    property,   \* what get_union_property was handed by for_each, and returned
    node,       \* the statement handed to the executor
    entry,      \* the binding state the executor was entered with
    scopes,     \* the scope stack, bottom first
    ctrl,       \* the executor's call stack, bottom first: [node, step]
    unionType,  \* a UnionType whose add and for_each are called directly
    fed,        \* the types handed to its add so far, in order
    emitted     \* what its for_each handed over (<<>> before the call)

vars == <<builder, built, nadds, last, args, ret, aux, pc, resolver, property,
          node, entry, scopes, ctrl, unionType, fed, emitted>>

----------------------------------------------------------------------------
(* Bounds of the model *)

NumLits == 2          \* distinct literal values per literal kind
NumUnresolved == 2    \* distinct unresolved placeholders
MaxMembers == 3       \* longest member list handed to into_union
ShortMembers == 2     \* longest member list drawn from every kind
MaxAdds == 3          \* add calls per run of the builder

----------------------------------------------------------------------------
(* Ty values *)

Ty(kind) == [k |-> kind, v |-> 0]
TyOf(kind, payload) == [k |-> kind, v |-> payload]
NoTy == Ty("<none>")

\* What a panic (unreachable!) leaves in place of a value.
Unreachable == [panic |-> "Handled in UnionTypeBuilder"]

----------------------------------------------------------------------------
(* LiteralAble<L> *)

Vacant == [tag |-> "Vacant", set |-> {}]
LiteralAble_Any == [tag |-> "Any", set |-> {}]
Literals(set) == [tag |-> "Literals", set |-> set]

\* Mutant: a literal that is added again widens the slot to Any.
LiteralAble_add_RepeatWidens(self, literal) ==
    IF self.tag = "Vacant" THEN Literals({literal})
    ELSE IF self.tag = "Any" THEN self
    ELSE IF literal \in self.set THEN LiteralAble_Any
    ELSE Literals(self.set \cup {literal})

\* Mutant: a literal added to an Any slot starts a literal set again.
LiteralAble_add_AnyRestarts(self, literal) ==
    IF self.tag = "Vacant" THEN Literals({literal})
    ELSE IF self.tag = "Any" THEN Literals({literal})
    ELSE Literals(self.set \cup {literal})

LiteralAble_add(self, literal) ==
    IF self.tag = "Vacant" THEN Literals({literal})
    ELSE IF self.tag = "Any" THEN self
    ELSE Literals(self.set \cup {literal})

\* Every enumeration of a hash set: its iteration order is unspecified.
Orders(S) ==
    {f \in [1..Cardinality(S) -> S] : \A e \in S : \E i \in 1..Cardinality(S) : f[i] = e}

\* The sequences for_each can emit: f(any), or f(ctor(l)) per literal l.
LiteralAble_for_each(self, any, ctor) ==
    IF self.tag = "Vacant" THEN {<<>>}
    ELSE IF self.tag = "Any" THEN {<<Ty(any)>>}
    ELSE {[i \in 1..Len(o) |-> TyOf(ctor, o[i])] : o \in Orders(self.set)}

----------------------------------------------------------------------------
(* UnionType *)

UnionType_default ==
    [string |-> Vacant, number |-> Vacant, bigint |-> Vacant, symbol |-> Vacant,
     object |-> FALSE, void |-> FALSE, null |-> FALSE, undefined |-> FALSE,
     boolean |-> <<FALSE, FALSE>>,
     complex |-> {}, unresolved |-> <<>>]

\* Mutant: BooleanLiteral(false) sets the has_true half.
UnionType_add_FalseSetsTrue(self, ty) ==
    CASE ty.k = "Void" -> [self EXCEPT !.void = TRUE]
      [] ty.k = "Null" -> [self EXCEPT !.null = TRUE]
      [] ty.k = "Undefined" -> [self EXCEPT !.undefined = TRUE]
      [] ty.k = "Object" -> [self EXCEPT !.object = TRUE]
      [] ty.k = "String" -> [self EXCEPT !.string = LiteralAble_Any]
      [] ty.k = "Number" -> [self EXCEPT !.number = LiteralAble_Any]
      [] ty.k = "BigInt" -> [self EXCEPT !.bigint = LiteralAble_Any]
      [] ty.k = "Symbol" -> [self EXCEPT !.symbol = LiteralAble_Any]
      [] ty.k = "Boolean" -> [self EXCEPT !.boolean = <<TRUE, TRUE>>]
      [] ty.k = "StringLiteral" -> [self EXCEPT !.string = LiteralAble_add(@, ty.v)]
      [] ty.k = "NumericLiteral" -> [self EXCEPT !.number = LiteralAble_add(@, ty.v)]
      [] ty.k = "BigIntLiteral" -> [self EXCEPT !.bigint = LiteralAble_add(@, ty.v)]
      [] ty.k = "UniqueSymbol" -> [self EXCEPT !.symbol = LiteralAble_add(@, ty.v)]
      [] ty.k = "BooleanLiteral" -> [self EXCEPT !.boolean[1] = TRUE]
      [] ty.k \in {"Record", "Function", "Constructor", "Interface", "Namespace",
                   "Intersection"} ->
            [self EXCEPT !.complex = @ \cup {ty}]
      [] ty.k = "Unresolved" -> [self EXCEPT !.unresolved = Append(@, ty.v)]
      [] OTHER -> Unreachable

\* Mutant: a placeholder that is already in the list is not pushed again.
UnionType_add_UnresolvedOnce(self, ty) ==
    CASE ty.k = "Void" -> [self EXCEPT !.void = TRUE]
      [] ty.k = "Null" -> [self EXCEPT !.null = TRUE]
      [] ty.k = "Undefined" -> [self EXCEPT !.undefined = TRUE]
      [] ty.k = "Object" -> [self EXCEPT !.object = TRUE]
      [] ty.k = "String" -> [self EXCEPT !.string = LiteralAble_Any]
      [] ty.k = "Number" -> [self EXCEPT !.number = LiteralAble_Any]
      [] ty.k = "BigInt" -> [self EXCEPT !.bigint = LiteralAble_Any]
      [] ty.k = "Symbol" -> [self EXCEPT !.symbol = LiteralAble_Any]
      [] ty.k = "Boolean" -> [self EXCEPT !.boolean = <<TRUE, TRUE>>]
      [] ty.k = "StringLiteral" -> [self EXCEPT !.string = LiteralAble_add(@, ty.v)]
      [] ty.k = "NumericLiteral" -> [self EXCEPT !.number = LiteralAble_add(@, ty.v)]
      [] ty.k = "BigIntLiteral" -> [self EXCEPT !.bigint = LiteralAble_add(@, ty.v)]
      [] ty.k = "UniqueSymbol" -> [self EXCEPT !.symbol = LiteralAble_add(@, ty.v)]
      [] ty.k = "BooleanLiteral" /\ ty.v = TRUE -> [self EXCEPT !.boolean[1] = TRUE]
      [] ty.k = "BooleanLiteral" /\ ty.v = FALSE -> [self EXCEPT !.boolean[2] = TRUE]
      [] ty.k \in {"Record", "Function", "Constructor", "Interface", "Namespace",
                   "Intersection"} ->
            [self EXCEPT !.complex = @ \cup {ty}]
      [] ty.k = "Unresolved" ->
            IF \E i \in 1..Len(self.unresolved) : self.unresolved[i] = ty.v
            THEN self
            ELSE [self EXCEPT !.unresolved = Append(@, ty.v)]
      [] OTHER -> Unreachable

\* Mutant: BooleanLiteral(true) overwrites the pair.
UnionType_add_TrueOverwrites(self, ty) ==
    CASE ty.k = "Void" -> [self EXCEPT !.void = TRUE]
      [] ty.k = "Null" -> [self EXCEPT !.null = TRUE]
      [] ty.k = "Undefined" -> [self EXCEPT !.undefined = TRUE]
      [] ty.k = "Object" -> [self EXCEPT !.object = TRUE]
      [] ty.k = "String" -> [self EXCEPT !.string = LiteralAble_Any]
      [] ty.k = "Number" -> [self EXCEPT !.number = LiteralAble_Any]
      [] ty.k = "BigInt" -> [self EXCEPT !.bigint = LiteralAble_Any]
      [] ty.k = "Symbol" -> [self EXCEPT !.symbol = LiteralAble_Any]
      [] ty.k = "Boolean" -> [self EXCEPT !.boolean = <<TRUE, TRUE>>]
      [] ty.k = "StringLiteral" -> [self EXCEPT !.string = LiteralAble_add(@, ty.v)]
      [] ty.k = "NumericLiteral" -> [self EXCEPT !.number = LiteralAble_add(@, ty.v)]
      [] ty.k = "BigIntLiteral" -> [self EXCEPT !.bigint = LiteralAble_add(@, ty.v)]
      [] ty.k = "UniqueSymbol" -> [self EXCEPT !.symbol = LiteralAble_add(@, ty.v)]
      [] ty.k = "BooleanLiteral" /\ ty.v = TRUE -> [self EXCEPT !.boolean = <<TRUE, FALSE>>]
      [] ty.k = "BooleanLiteral" /\ ty.v = FALSE -> [self EXCEPT !.boolean[2] = TRUE]
      [] ty.k \in {"Record", "Function", "Constructor", "Interface", "Namespace",
                   "Intersection"} ->
            [self EXCEPT !.complex = @ \cup {ty}]
      [] ty.k = "Unresolved" -> [self EXCEPT !.unresolved = Append(@, ty.v)]
      [] OTHER -> Unreachable

UnionType_add(self, ty) ==
    CASE ty.k = "Void" -> [self EXCEPT !.void = TRUE]
      [] ty.k = "Null" -> [self EXCEPT !.null = TRUE]
      [] ty.k = "Undefined" -> [self EXCEPT !.undefined = TRUE]
      [] ty.k = "Object" -> [self EXCEPT !.object = TRUE]
      [] ty.k = "String" -> [self EXCEPT !.string = LiteralAble_Any]
      [] ty.k = "Number" -> [self EXCEPT !.number = LiteralAble_Any]
      [] ty.k = "BigInt" -> [self EXCEPT !.bigint = LiteralAble_Any]
      [] ty.k = "Symbol" -> [self EXCEPT !.symbol = LiteralAble_Any]
      [] ty.k = "Boolean" -> [self EXCEPT !.boolean = <<TRUE, TRUE>>]
      [] ty.k = "StringLiteral" -> [self EXCEPT !.string = LiteralAble_add(@, ty.v)]
      [] ty.k = "NumericLiteral" -> [self EXCEPT !.number = LiteralAble_add(@, ty.v)]
      [] ty.k = "BigIntLiteral" -> [self EXCEPT !.bigint = LiteralAble_add(@, ty.v)]
      [] ty.k = "UniqueSymbol" -> [self EXCEPT !.symbol = LiteralAble_add(@, ty.v)]
      [] ty.k = "BooleanLiteral" /\ ty.v = TRUE -> [self EXCEPT !.boolean[1] = TRUE]
      [] ty.k = "BooleanLiteral" /\ ty.v = FALSE -> [self EXCEPT !.boolean[2] = TRUE]
      [] ty.k \in {"Record", "Function", "Constructor", "Interface", "Namespace",
                   "Intersection"} ->
            [self EXCEPT !.complex = @ \cup {ty}]
      [] ty.k = "Unresolved" -> [self EXCEPT !.unresolved = Append(@, ty.v)]
      [] OTHER -> Unreachable

\* Mutant: the two one-sided arms of the match are swapped.
BooleanMembers_Swapped(boolean) ==
    IF boolean[1] /\ boolean[2] THEN <<Ty("Boolean")>>
    ELSE IF boolean[1] THEN <<TyOf("BooleanLiteral", FALSE)>>
    ELSE IF boolean[2] THEN <<TyOf("BooleanLiteral", TRUE)>>
    ELSE <<>>

\* What the match on the boolean pair emits.
BooleanMembers(boolean) ==
    IF boolean[1] /\ boolean[2] THEN <<Ty("Boolean")>>
    ELSE IF boolean[1] THEN <<TyOf("BooleanLiteral", TRUE)>>
    ELSE IF boolean[2] THEN <<TyOf("BooleanLiteral", FALSE)>>
    ELSE <<>>

Flag(b, kind) == IF b THEN <<Ty(kind)>> ELSE <<>>

\* Mutant: the unresolved list is not enumerated.
UnionType_for_each_NoUnresolved(self) ==
    {s \o n \o b \o y
       \o Flag(self.object, "Object") \o Flag(self.void, "Void")
       \o Flag(self.null, "Null") \o Flag(self.undefined, "Undefined")
       \o BooleanMembers(self.boolean)
       \o c :
       s \in LiteralAble_for_each(self.string, "String", "StringLiteral"),
       n \in LiteralAble_for_each(self.number, "Number", "NumericLiteral"),
       b \in LiteralAble_for_each(self.bigint, "BigInt", "BigIntLiteral"),
       y \in LiteralAble_for_each(self.symbol, "Symbol", "UniqueSymbol"),
       c \in Orders(self.complex)}

\* The sequences of members for_each can hand to its callback, one per
\* iteration order of the hash sets.
UnionType_for_each(self) ==
    {s \o n \o b \o y
       \o Flag(self.object, "Object") \o Flag(self.void, "Void")
       \o Flag(self.null, "Null") \o Flag(self.undefined, "Undefined")
       \o BooleanMembers(self.boolean)
       \o c
       \o [i \in 1..Len(self.unresolved) |-> TyOf("Unresolved", self.unresolved[i])] :
       s \in LiteralAble_for_each(self.string, "String", "StringLiteral"),
       n \in LiteralAble_for_each(self.number, "Number", "NumericLiteral"),
       b \in LiteralAble_for_each(self.bigint, "BigInt", "BigIntLiteral"),
       y \in LiteralAble_for_each(self.symbol, "Symbol", "UniqueSymbol"),
       c \in Orders(self.complex)}

----------------------------------------------------------------------------
(* The generic-instance resolver, an external collaborator: instance u     *)
(* resolves to InstanceTargets[u].                                         *)

InstanceTargets ==
    <<TyOf("StringLiteral", 1),
      TyOf("Generic", 1),
      Ty("Any"),
      TyOf("Instance", 1),
      TyOf("Union", [UnionType_default EXCEPT !.string = LiteralAble_Any, !.null = TRUE])>>

unwrap_generic_instance(u) == InstanceTargets[u]

----------------------------------------------------------------------------
(* UnionTypeBuilder *)

Builder(tag) == [tag |-> tag, compound |-> UnionType_default]
Compound(compound) == [tag |-> "Compound", compound |-> compound]
UnionTypeBuilder_default == Builder("Never")

\* The state of a builder whose add ran into unreachable!: the program has
\* stopped, no later call runs.
Panicked == Builder("Panicked")

RECURSIVE UnionTypeBuilder_add(_, _), AddEach(_, _)

\* compound.add(c) of the last two arms, on a fresh or on the held UnionType.
CompoundAdd(compound, c) ==
    LET added == UnionType_add(compound, c)
    IN  IF added = Unreachable THEN Panicked ELSE Compound(added)

\* Mutant: Namespace is not escalated and reaches the compound arm.
UnionTypeBuilder_add_NamespaceStored(self, ty) ==
    IF self.tag = "Panicked" THEN self
    ELSE IF self.tag \in {"Error", "Any", "Unknown"} THEN self
    ELSE IF ty.k \in {"Error", "Generic", "Intrinsic"} THEN Builder("Error")
    ELSE IF ty.k = "Any" THEN Builder("Any")
    ELSE IF ty.k = "Unknown" THEN Builder("Unknown")
    ELSE IF ty.k = "Never" THEN self
    ELSE IF ty.k = "Union" THEN
        AddEach(self, CHOOSE tys \in UnionType_for_each(ty.v) : TRUE)
    ELSE IF ty.k = "Instance" THEN
        UnionTypeBuilder_add(self, unwrap_generic_instance(ty.v))
    ELSE IF self.tag = "Never" THEN CompoundAdd(UnionType_default, ty)
    ELSE CompoundAdd(self.compound, ty)

\* Mutant: the Never arm is missing, Never reaches the compound arm.
UnionTypeBuilder_add_NoNeverArm(self, ty) ==
    IF self.tag = "Panicked" THEN self
    ELSE IF self.tag \in {"Error", "Any", "Unknown"} THEN self
    ELSE IF ty.k \in {"Error", "Generic", "Intrinsic", "Namespace"} THEN Builder("Error")
    ELSE IF ty.k = "Any" THEN Builder("Any")
    ELSE IF ty.k = "Unknown" THEN Builder("Unknown")
    ELSE IF ty.k = "Union" THEN
        AddEach(self, CHOOSE tys \in UnionType_for_each(ty.v) : TRUE)
    ELSE IF ty.k = "Instance" THEN
        UnionTypeBuilder_add(self, unwrap_generic_instance(ty.v))
    ELSE IF self.tag = "Never" THEN CompoundAdd(UnionType_default, ty)
    ELSE CompoundAdd(self.compound, ty)

\* Mutant: only a builder in state Error ignores later members.
UnionTypeBuilder_add_OnlyErrorAbsorbs(self, ty) ==
    IF self.tag = "Panicked" THEN self
    ELSE IF self.tag = "Error" THEN self
    ELSE IF ty.k \in {"Error", "Generic", "Intrinsic", "Namespace"} THEN Builder("Error")
    ELSE IF ty.k = "Any" THEN Builder("Any")
    ELSE IF ty.k = "Unknown" THEN Builder("Unknown")
    ELSE IF ty.k = "Never" THEN self
    ELSE IF self.tag \in {"Any", "Unknown"} THEN self
    ELSE IF ty.k = "Union" THEN
        AddEach(self, CHOOSE tys \in UnionType_for_each(ty.v) : TRUE)
    ELSE IF ty.k = "Instance" THEN
        UnionTypeBuilder_add(self, unwrap_generic_instance(ty.v))
    ELSE IF self.tag = "Never" THEN CompoundAdd(UnionType_default, ty)
    ELSE CompoundAdd(self.compound, ty)

\* Mutant: a Union member is stored as it is, among the complex members.
UnionTypeBuilder_add_UnionStored(self, ty) ==
    IF self.tag = "Panicked" THEN self
    ELSE IF self.tag \in {"Error", "Any", "Unknown"} THEN self
    ELSE IF ty.k \in {"Error", "Generic", "Intrinsic", "Namespace"} THEN Builder("Error")
    ELSE IF ty.k = "Any" THEN Builder("Any")
    ELSE IF ty.k = "Unknown" THEN Builder("Unknown")
    ELSE IF ty.k = "Never" THEN self
    ELSE IF ty.k = "Union" THEN
        Compound([self.compound EXCEPT !.complex = @ \cup {ty}])
    ELSE IF ty.k = "Instance" THEN
        UnionTypeBuilder_add(self, unwrap_generic_instance(ty.v))
    ELSE IF self.tag = "Never" THEN CompoundAdd(UnionType_default, ty)
    ELSE CompoundAdd(self.compound, ty)

\* Mutant: a Never member empties the builder.
UnionTypeBuilder_add_NeverResets(self, ty) ==
    IF self.tag = "Panicked" THEN self
    ELSE IF self.tag \in {"Error", "Any", "Unknown"} THEN self
    ELSE IF ty.k \in {"Error", "Generic", "Intrinsic", "Namespace"} THEN Builder("Error")
    ELSE IF ty.k = "Any" THEN Builder("Any")
    ELSE IF ty.k = "Unknown" THEN Builder("Unknown")
    ELSE IF ty.k = "Never" THEN UnionTypeBuilder_default
    ELSE IF ty.k = "Union" THEN
        AddEach(self, CHOOSE tys \in UnionType_for_each(ty.v) : TRUE)
    ELSE IF ty.k = "Instance" THEN
        UnionTypeBuilder_add(self, unwrap_generic_instance(ty.v))
    ELSE IF self.tag = "Never" THEN CompoundAdd(UnionType_default, ty)
    ELSE CompoundAdd(self.compound, ty)

\* Mutant: Generic is not escalated and reaches the compound arms.
UnionTypeBuilder_add_GenericNotEscalated(self, ty) ==
    IF self.tag = "Panicked" THEN self
    ELSE IF self.tag \in {"Error", "Any", "Unknown"} THEN self
    ELSE IF ty.k \in {"Error", "Intrinsic", "Namespace"} THEN Builder("Error")
    ELSE IF ty.k = "Any" THEN Builder("Any")
    ELSE IF ty.k = "Unknown" THEN Builder("Unknown")
    ELSE IF ty.k = "Never" THEN self
    ELSE IF ty.k = "Union" THEN
        AddEach(self, CHOOSE tys \in UnionType_for_each(ty.v) : TRUE)
    ELSE IF ty.k = "Instance" THEN
        UnionTypeBuilder_add(self, unwrap_generic_instance(ty.v))
    ELSE IF self.tag = "Never" THEN CompoundAdd(UnionType_default, ty)
    ELSE CompoundAdd(self.compound, ty)

\* Mutant: Any overrides a builder that already is Unknown.
UnionTypeBuilder_add_AnyBeatsUnknown(self, ty) ==
    IF self.tag = "Panicked" THEN self
    ELSE IF self.tag = "Unknown" /\ ty.k = "Any" THEN Builder("Any")
    ELSE IF self.tag \in {"Error", "Any", "Unknown"} THEN self
    ELSE IF ty.k \in {"Error", "Generic", "Intrinsic", "Namespace"} THEN Builder("Error")
    ELSE IF ty.k = "Any" THEN Builder("Any")
    ELSE IF ty.k = "Unknown" THEN Builder("Unknown")
    ELSE IF ty.k = "Never" THEN self
    ELSE IF ty.k = "Union" THEN
        AddEach(self, CHOOSE tys \in UnionType_for_each(ty.v) : TRUE)
    ELSE IF ty.k = "Instance" THEN
        UnionTypeBuilder_add(self, unwrap_generic_instance(ty.v))
    ELSE IF self.tag = "Never" THEN CompoundAdd(UnionType_default, ty)
    ELSE CompoundAdd(self.compound, ty)

UnionTypeBuilder_add(self, ty) ==
    IF self.tag = "Panicked" THEN self
    ELSE IF self.tag \in {"Error", "Any", "Unknown"} THEN self
    ELSE IF ty.k \in {"Error", "Generic", "Intrinsic", "Namespace"} THEN Builder("Error")
    ELSE IF ty.k = "Any" THEN Builder("Any")
    ELSE IF ty.k = "Unknown" THEN Builder("Unknown")
    ELSE IF ty.k = "Never" THEN self
    ELSE IF ty.k = "Union" THEN
        \* The result does not depend on the iteration order of the hash
        \* sets (OrderIndependentFlattening below), so any one will do.
        AddEach(self, CHOOSE tys \in UnionType_for_each(ty.v) : TRUE)
    ELSE IF ty.k = "Instance" THEN
        UnionTypeBuilder_add(self, unwrap_generic_instance(ty.v))
    ELSE IF self.tag = "Never" THEN CompoundAdd(UnionType_default, ty)
    ELSE CompoundAdd(self.compound, ty)

\* iter.for_each(|ty| builder.add(self, ty))
AddEach(self, tys) ==
    IF tys = <<>> THEN self
    ELSE AddEach(UnionTypeBuilder_add(self, Head(tys)), Tail(tys))

UnionTypeBuilder_build(self) ==
    IF self.tag = "Compound" THEN TyOf("Union", self.compound)
    ELSE Ty(self.tag)

----------------------------------------------------------------------------
(* Facade *)

\* Mutant: a single member goes through the builder like any other list.
into_union_NoShortcut(types) ==
    IF Len(types) = 0 THEN Ty("Undefined")
    ELSE UnionTypeBuilder_build(AddEach(UnionTypeBuilder_default, types))

\* Mutant: the empty list yields the lattice bottom.
into_union_EmptyIsNever(types) ==
    IF Len(types) = 0 THEN Ty("Never")
    ELSE IF Len(types) = 1 THEN types[1]
    ELSE UnionTypeBuilder_build(AddEach(UnionTypeBuilder_default, types))

into_union(types) ==
    IF Len(types) = 0 THEN Ty("Undefined")
    ELSE IF Len(types) = 1 THEN types[1]
    ELSE UnionTypeBuilder_build(AddEach(UnionTypeBuilder_default, types))

get_optional_type(optional, ty) ==
    IF optional THEN into_union(<<Ty("Undefined"), ty>>) ELSE ty

\* The per-type property resolver, an external collaborator.
get_property(ty, key) == resolver[<<ty, key>>]

\* builder.add(self, self.get_property(ty, key)) for each member handed over
\* by union.for_each, then build.
PropertyOfMembers(members, key) ==
    UnionTypeBuilder_build(
        AddEach(UnionTypeBuilder_default,
                [i \in 1..Len(members) |-> get_property(members[i], key)]))

\* Mutant: the members themselves are folded, not their properties.
get_union_property_NoLookup(union, key) ==
    {[members |-> members,
      ret |-> UnionTypeBuilder_build(AddEach(UnionTypeBuilder_default, members))] :
        members \in UnionType_for_each(union)}

\* What the call can return, with the enumeration that led to it: one outcome
\* per iteration order of the union's hash sets.
get_union_property(union, key) ==
    {[members |-> members, ret |-> PropertyOfMembers(members, key)] :
        members \in UnionType_for_each(union)}

----------------------------------------------------------------------------
(* The types the model feeds to the operations *)

EscalatingKinds == {"Error", "Generic", "Intrinsic", "Namespace"}
PrimitiveKinds ==
    {"Object", "Void", "Null", "Undefined", "String", "Number", "BigInt", "Symbol",
     "Boolean"}
LiteralKinds == {"StringLiteral", "NumericLiteral", "BigIntLiteral", "UniqueSymbol"}
\* The kinds of the arm of UnionType::add that inserts into self.complex.
ComplexKinds ==
    {"Record", "Function", "Constructor", "Interface", "Namespace", "Intersection"}

\* Unions as the builder produces them.
SampleUnions ==
    {into_union(<<Ty("Null"), TyOf("StringLiteral", 1)>>),
     into_union(<<TyOf("Unresolved", 1), TyOf("Record", 1)>>)}

AllTys ==
    {Ty("Never"), Ty("Error"), Ty("Any"), Ty("Unknown")}
    \cup {TyOf(k, 1) : k \in {"Generic", "Intrinsic", "Namespace"}}
    \cup {Ty(k) : k \in PrimitiveKinds}
    \cup {TyOf(k, n) : k \in LiteralKinds, n \in 1..NumLits}
    \cup {TyOf("BooleanLiteral", b) : b \in BOOLEAN}
    \cup {TyOf(k, 1) : k \in ComplexKinds}
    \cup {TyOf("Unresolved", n) : n \in 1..NumUnresolved}
    \cup {TyOf("Instance", u) : u \in 1..Len(InstanceTargets)}
    \cup SampleUnions

\* One or two types for every arm of the two add functions.
CoreTys ==
    {Ty("Never"), Ty("Error"), TyOf("Namespace", 1), Ty("Any"), Ty("Unknown"),
     Ty("Null"), Ty("String"), TyOf("Record", 1),
     TyOf("BooleanLiteral", TRUE), TyOf("BooleanLiteral", FALSE),
     TyOf("Instance", 1), TyOf("Instance", 3)}
    \cup {TyOf("StringLiteral", n) : n \in 1..NumLits}
    \cup {TyOf("Unresolved", n) : n \in 1..NumUnresolved}
    \cup SampleUnions

MemberLists ==
    UNION {[1..n -> AllTys] : n \in 0..ShortMembers}
    \cup UNION {[1..n -> CoreTys] : n \in 0..MaxMembers}

----------------------------------------------------------------------------
(* Idle values of the parts a specification does not use *)

NoAux == [op |-> "none", inner |-> NoTy, ret |-> NoTy]

BuilderIdle ==
    builder = UnionTypeBuilder_default /\ built = NoTy /\ nadds = 0 /\ last = NoTy
FacadeIdle == args = <<>> /\ ret = NoTy /\ aux = NoAux
NoProperty == [members |-> <<>>, ret |-> NoTy]
PropertyIdle == resolver = <<>> /\ property = NoProperty
NoNode == [t |-> "none"]
WhileIdle == node = NoNode /\ entry = <<>> /\ scopes = <<>> /\ ctrl = <<>>
UnionTypeIdle == unionType = UnionType_default /\ fed = <<>> /\ emitted = <<>>

builderVars == <<builder, built, nadds, last>>
facadeVars == <<args, ret, aux>>
propertyVars == <<resolver, property>>
whileVars == <<node, entry, scopes, ctrl>>
unionTypeVars == <<unionType, fed, emitted>>

----------------------------------------------------------------------------
(* SpecUnion: into_union on a member list, then the same members handed    *)
(* over differently.                                                       *)

InitUnion ==
    /\ args \in MemberLists
    /\ ret = NoTy /\ aux = NoAux /\ pc = "start"
    /\ BuilderIdle /\ PropertyIdle /\ WhileIdle /\ UnionTypeIdle

IntoUnion ==
    /\ pc = "start"
    /\ ret' = into_union(args)
    /\ pc' = "returned"
    /\ UNCHANGED <<args, aux, builderVars, propertyVars, whileVars, unionTypeVars>>

\* into_union([Never] ++ members)
IntoUnionWithNever ==
    /\ pc = "returned"
    /\ aux' = [op |-> "never", inner |-> NoTy,
               ret |-> into_union(<<Ty("Never")>> \o args)]
    /\ pc' = "done"
    /\ UNCHANGED <<args, ret, builderVars, propertyVars, whileVars, unionTypeVars>>

\* into_union([A, into_union([B, C, ...])])
IntoUnionNested ==
    /\ pc = "returned"
    /\ Len(args) >= 3
    /\ LET inner == into_union(Tail(args))
       IN  aux' = [op |-> "nested", inner |-> inner,
                   ret |-> into_union(<<Head(args), inner>>)]
    /\ pc' = "done"
    /\ UNCHANGED <<args, ret, builderVars, propertyVars, whileVars, unionTypeVars>>

\* The rearrangements of a list.
Rearrangements(types) ==
    {[i \in 1..Len(types) |-> types[f[i]]] :
        f \in {g \in [1..Len(types) -> 1..Len(types)] :
                  \A i, j \in 1..Len(types) : g[i] = g[j] => i = j}}

\* into_union(members in another order)
IntoUnionPermuted ==
    /\ pc = "returned"
    /\ Len(args) >= 2
    /\ \E types \in Rearrangements(args) :
            aux' = [op |-> "permuted", inner |-> NoTy, ret |-> into_union(types)]
    /\ pc' = "done"
    /\ UNCHANGED <<args, ret, builderVars, propertyVars, whileVars, unionTypeVars>>

NextUnion == IntoUnion \/ IntoUnionWithNever \/ IntoUnionNested \/ IntoUnionPermuted

SpecUnion == InitUnion /\ [][NextUnion]_vars

----------------------------------------------------------------------------
(* SpecBuilder: a builder is fed member by member and built; the union it  *)
(* returns can be fed to the next builder.                                 *)

InitBuilder ==
    /\ BuilderIdle /\ pc = "adding"
    /\ FacadeIdle /\ PropertyIdle /\ WhileIdle /\ UnionTypeIdle

\* The types at hand: every kind, and the union built last.
BuilderTys == AllTys \cup (IF built.k = "Union" THEN {built} ELSE {})

Add(ty) ==
    /\ pc = "adding"
    /\ nadds < MaxAdds
    /\ builder' = UnionTypeBuilder_add(builder, ty)
    /\ nadds' = nadds + 1
    /\ last' = ty
    /\ UNCHANGED <<built, pc, facadeVars, propertyVars, whileVars, unionTypeVars>>

Build ==
    /\ pc = "adding"
    /\ built' = UnionTypeBuilder_build(builder)
    /\ pc' = "built"
    /\ UNCHANGED <<builder, nadds, last, facadeVars, propertyVars, whileVars, unionTypeVars>>

\* UnionTypeBuilder::default()
NewBuilder ==
    /\ pc = "built"
    /\ builder' = UnionTypeBuilder_default
    /\ last' = NoTy
    /\ pc' = "adding"
    /\ UNCHANGED <<built, nadds, facadeVars, propertyVars, whileVars, unionTypeVars>>

NextBuilder == (\E ty \in BuilderTys : Add(ty)) \/ Build \/ NewBuilder

SpecBuilder == InitBuilder /\ [][NextBuilder]_vars

----------------------------------------------------------------------------
(* SpecProperty: into_union on two members, then get_union_property on the *)
(* union and into_union on the two members' properties.                    *)

Keys == {"key"}

\* The members whose union is looked into.
PropertyMembers ==
    {Ty("Null"), Ty("String"), Ty("Boolean"), TyOf("Record", 1), TyOf("Function", 1),
     TyOf("BooleanLiteral", TRUE), TyOf("BooleanLiteral", FALSE),
     TyOf("Instance", 1), TyOf("Instance", 5)}
    \cup {TyOf("StringLiteral", n) : n \in 1..NumLits}
    \cup {TyOf("Unresolved", n) : n \in 1..NumUnresolved}

\* The types a property can have.
PropertyTys ==
    {Ty("Any"), Ty("Unknown"), Ty("Never"), Ty("Number"), TyOf("Unresolved", 1)}

\* The types get_property is asked about: the two members, and the members
\* of their union.
Involved(types) ==
    {types[i] : i \in 1..Len(types)}
    \cup (IF into_union(types).k = "Union"
          THEN UNION {{members[i] : i \in 1..Len(members)} :
                        members \in UnionType_for_each(into_union(types).v)}
          ELSE {})

InitProperty ==
    /\ args \in [1..2 -> PropertyMembers]
    /\ resolver \in [Involved(args) \X Keys -> PropertyTys]
    /\ ret = NoTy /\ aux = NoAux /\ property = NoProperty /\ pc = "start"
    /\ BuilderIdle /\ WhileIdle /\ UnionTypeIdle

GetUnionProperty(key) ==
    /\ pc = "returned"
    /\ ret.k = "Union"
    /\ property' \in get_union_property(ret.v, key)
    /\ aux' = [op |-> "property", inner |-> NoTy,
               ret |-> into_union(<<get_property(args[1], key),
                                    get_property(args[2], key)>>)]
    /\ pc' = "done"
    /\ UNCHANGED <<args, ret, resolver, builderVars, whileVars, unionTypeVars>>

NextProperty == IntoUnion \/ \E key \in Keys : GetUnionProperty(key)

SpecProperty == InitProperty /\ [][NextProperty]_vars

----------------------------------------------------------------------------
(* The scope stack, an external collaborator. A frame holds its kind and   *)
(* the bindings assigned while it was on top; the bottom frame holds the   *)
(* state the executor was entered with.                                    *)

Scope(kind) == [kind |-> kind, overrides |-> [v \in {} |-> NoTy]]

push_indeterminate_scope(stack) == Append(stack, Scope("Indeterminate"))
push_loop_scope(stack) == Append(stack, Scope("Loop"))
push_normal_scope(stack) == Append(stack, Scope("Normal"))

RECURSIVE Lookup(_, _)
\* The state of a binding: what the topmost frame that assigned it holds.
Lookup(stack, var) ==
    IF var \in DOMAIN stack[Len(stack)].overrides
    THEN stack[Len(stack)].overrides[var]
    ELSE Lookup(SubSeq(stack, 1, Len(stack) - 1), var)

\* The merge of a popped frame's state of a binding into its parent: a
\* Normal frame's state replaces the parent's; that of an Indeterminate or
\* Loop frame, whose code may not have run, is united with it.
Merge(kind, before, after) ==
    IF kind = "Normal" THEN after ELSE into_union(<<before, after>>)

pop_scope(stack) ==
    LET top == stack[Len(stack)]
        rest == SubSeq(stack, 1, Len(stack) - 1)
        parent == rest[Len(rest)]
        merged == [v \in DOMAIN top.overrides \cup DOMAIN parent.overrides |->
                      IF v \in DOMAIN top.overrides
                      THEN Merge(top.kind, Lookup(rest, v), top.overrides[v])
                      ELSE parent.overrides[v]]
    IN  [rest EXCEPT ![Len(rest)].overrides = merged]

\* An assignment, as statement or as expression.
Assign(stack, var, ty) ==
    [stack EXCEPT ![Len(stack)].overrides =
        [v \in DOMAIN @ \cup {var} |-> IF v = var THEN ty ELSE @[v]]]

----------------------------------------------------------------------------
(* SpecWhile: exec_while_statement on a while statement, step by step; the *)
(* test and the body are assignments, nothing, or another while statement. *)

Bindings == {"x"}
BoundTys == {Ty("String"), Ty("Number")}

Literal == [t |-> "literal"]
Assignments == {[t |-> "assign", var |-> v, ty |-> ty] : v \in Bindings, ty \in BoundTys}
While(test, body) == [t |-> "while", test |-> test, body |-> body]
\* A call expression whose callee runs the statement.
CallOf(stmt) == [t |-> "call", body |-> stmt]

InnerWhiles == {While(e, b) : e \in {Literal} \cup Assignments, b \in Assignments}
Tests == {Literal} \cup Assignments \cup {CallOf(w) : w \in InnerWhiles}
Bodies == Assignments \cup InnerWhiles
WhileStatements == {While(e, b) : e \in Tests, b \in Bodies}

InitWhile ==
    /\ node \in WhileStatements
    /\ entry \in [Bindings -> BoundTys]
    /\ scopes = <<[kind |-> "Normal", overrides |-> entry]>>
    /\ ctrl = <<[node |-> node, step |-> 1]>>
    /\ pc = "exec"
    /\ BuilderIdle /\ FacadeIdle /\ PropertyIdle /\ UnionTypeIdle

Running == ctrl[Len(ctrl)]
At(kind, step) == ctrl # <<>> /\ Running.node.t = kind /\ Running.step = step
Goto(step) == ctrl' = [ctrl EXCEPT ![Len(ctrl)].step = step]
CallThen(callee, step) ==
    ctrl' = Append([ctrl EXCEPT ![Len(ctrl)].step = step], [node |-> callee, step |-> 1])
Return == ctrl' = SubSeq(ctrl, 1, Len(ctrl) - 1)
Untouched ==
    UNCHANGED <<node, entry, pc, builderVars, facadeVars, propertyVars, unionTypeVars>>

\* self.push_indeterminate_scope();
WhilePushIndeterminate ==
    /\ At("while", 1)
    /\ scopes' = push_indeterminate_scope(scopes)
    /\ Goto(2) /\ Untouched

\* self.exec_expression(&node.test, None);
WhileExecTest ==
    /\ At("while", 2)
    /\ CallThen(Running.node.test, 3)
    /\ UNCHANGED scopes /\ Untouched

\* self.pop_scope();
WhilePopIndeterminate ==
    /\ At("while", 3)
    /\ scopes' = pop_scope(scopes)
    /\ Goto(4) /\ Untouched

\* Mutant: the body runs in a Normal scope.
WhilePushLoop_Normal ==
    /\ At("while", 4)
    /\ scopes' = push_normal_scope(scopes)
    /\ Goto(5) /\ Untouched

\* self.push_loop_scope();
WhilePushLoop ==
    /\ At("while", 4)
    /\ scopes' = push_loop_scope(scopes)
    /\ Goto(5) /\ Untouched

\* self.exec_statement(&node.body);
WhileExecBody ==
    /\ At("while", 5)
    /\ CallThen(Running.node.body, 6)
    /\ UNCHANGED scopes /\ Untouched

\* Mutant: the statement returns with its Loop frame still on the stack.
WhilePopLoop_NoPop ==
    /\ At("while", 6)
    /\ Return /\ UNCHANGED scopes /\ Untouched

\* self.pop_scope(); and return
WhilePopLoop ==
    /\ At("while", 6)
    /\ scopes' = pop_scope(scopes)
    /\ Return /\ Untouched

exec_while_statement ==
    \/ WhilePushIndeterminate \/ WhileExecTest \/ WhilePopIndeterminate
    \/ WhilePushLoop \/ WhileExecBody \/ WhilePopLoop

\* The rest of the executor: literals, assignments and calls.
ExecLiteral ==
    /\ At("literal", 1)
    /\ Return /\ UNCHANGED scopes /\ Untouched

ExecAssign ==
    /\ At("assign", 1)
    /\ scopes' = Assign(scopes, Running.node.var, Running.node.ty)
    /\ Return /\ Untouched

ExecCall ==
    \/ /\ At("call", 1)
       /\ CallThen(Running.node.body, 2)
       /\ UNCHANGED scopes /\ Untouched
    \/ /\ At("call", 2)
       /\ Return /\ UNCHANGED scopes /\ Untouched

NextWhile == exec_while_statement \/ ExecLiteral \/ ExecAssign \/ ExecCall

SpecWhile == InitWhile /\ [][NextWhile]_vars

----------------------------------------------------------------------------
(* SpecUnionType: add of a UnionType is called directly, with members of   *)
(* every kind, and for_each enumerates what it holds.                      *)

InitUnionType ==
    /\ UnionTypeIdle /\ pc = "adding"
    /\ BuilderIdle /\ FacadeIdle /\ PropertyIdle /\ WhileIdle

\* self.add(ty): a member of a kind no arm stores ends the program in
\* unreachable!, with nothing stored.
UnionTypeAdd(ty) ==
    /\ pc = "adding"
    /\ Len(fed) < MaxAdds
    /\ LET added == UnionType_add(unionType, ty)
       IN  IF added = Unreachable
           THEN unionType' = unionType /\ pc' = "panicked"
           ELSE unionType' = added /\ pc' = "adding"
    /\ fed' = Append(fed, ty)
    /\ UNCHANGED <<emitted, builderVars, facadeVars, propertyVars, whileVars>>

\* self.for_each(f), f collecting what it is handed.
UnionTypeForEach ==
    /\ pc = "adding"
    /\ emitted' \in UnionType_for_each(unionType)
    /\ pc' = "emitted"
    /\ UNCHANGED <<unionType, fed, builderVars, facadeVars, propertyVars, whileVars>>

NextUnionType == (\E ty \in AllTys : UnionTypeAdd(ty)) \/ UnionTypeForEach

SpecUnionType == InitUnionType /\ [][NextUnionType]_vars

----------------------------------------------------------------------------
(* Claims about into_union, checked under SpecUnion *)

Returned == pc # "start"

RECURSIVE Resolved(_)
\* The type an instance stands for, through chains of instances.
Resolved(ty) ==
    IF ty.k = "Instance" THEN Resolved(unwrap_generic_instance(ty.v)) ELSE ty

HasEscalating(types) == \E i \in 1..Len(types) : types[i].k \in EscalatingKinds

\* An escalating member with no Any or Unknown, given directly or through an
\* instance, before it.
EscalatingComesFirst(types) ==
    \E i \in 1..Len(types) :
        /\ types[i].k \in EscalatingKinds
        /\ \A j \in 1..(i - 1) : Resolved(types[j]).k \notin {"Any", "Unknown"}

\* C1 as stated: a member list holding an Error, Generic, Intrinsic or
\* Namespace member, whatever else it holds and also when it is the only
\* member, makes into_union return Error.
C1_EscalationDominance ==
    (Returned /\ HasEscalating(args)) => ret = Ty("Error")

\* C1, amended: a list of two or more members holding an Error, Generic,
\* Intrinsic or Namespace member that no Any or Unknown member (nor an
\* instance resolving to one) precedes makes into_union return Error.
C1_EscalationUnlessAbsorbed ==
    (Returned /\ Len(args) >= 2 /\ EscalatingComesFirst(args)) => ret = Ty("Error")

C1_Witness ==
    /\ Returned
    /\ Len(args) = 3
    /\ args[1] = Ty("String") /\ args[2] = TyOf("Namespace", 1) /\ args[3] = Ty("Any")
    /\ ret = Ty("Error")

\* C2 as stated: into_union([Never, X]) returns what into_union([X]) returns,
\* for every X.
C2_NeverIsIdentity ==
    (pc = "done" /\ aux.op = "never" /\ Len(args) = 1) => aux.ret = ret

\* C2, amended: into_union([Never, X]) returns what a fresh builder builds
\* after the one add of X; that is into_union([X]) when X is Never, Error,
\* Any, Unknown or a union.
C2_NeverAddsNothing ==
    (pc = "done" /\ aux.op = "never" /\ Len(args) = 1) =>
        /\ aux.ret = UnionTypeBuilder_build(
                        UnionTypeBuilder_add(UnionTypeBuilder_default, args[1]))
        /\ args[1].k \in {"Never", "Error", "Any", "Unknown", "Union"} => aux.ret = ret

C2_Witness ==
    /\ pc = "done" /\ aux.op = "never"
    /\ args = <<Ty("String")>>
    /\ ret = Ty("String")
    /\ aux.ret = TyOf("Union", [UnionType_default EXCEPT !.string = LiteralAble_Any])

BooleanPair == <<TyOf("BooleanLiteral", TRUE), TyOf("BooleanLiteral", FALSE)>>

\* C3 as stated: into_union([BooleanLiteral(true), BooleanLiteral(false)]) is
\* the type Boolean, and into_union([BooleanLiteral(true)]) is
\* BooleanLiteral(true).
C3_BooleanReconstruction ==
    Returned =>
        /\ args = BooleanPair => ret = Ty("Boolean")
        /\ args = <<TyOf("BooleanLiteral", TRUE)>> => ret = TyOf("BooleanLiteral", TRUE)

\* C3, amended: into_union([BooleanLiteral(true), BooleanLiteral(false)]) is a
\* Union whose only content is the boolean pair (true, true), which for_each
\* enumerates as the one member Boolean; into_union([BooleanLiteral(true)]) is
\* BooleanLiteral(true).
C3_BooleanPairReconstructed ==
    Returned =>
        /\ args = BooleanPair =>
            /\ ret = TyOf("Union", [UnionType_default EXCEPT !.boolean = <<TRUE, TRUE>>])
            /\ UnionType_for_each(ret.v) = {<<Ty("Boolean")>>}
        /\ args = <<TyOf("BooleanLiteral", TRUE)>> => ret = TyOf("BooleanLiteral", TRUE)

C3_Witness == Returned /\ args = BooleanPair /\ ret.k = "Union"

\* C4: handing A together with the built union of the other members to
\* into_union gives the result of into_union on the flat list.
C4_Flattening ==
    (pc = "done" /\ aux.op = "nested") => aux.ret = ret

C4_Witness ==
    /\ pc = "done" /\ aux.op = "nested"
    /\ args = <<TyOf("StringLiteral", 1), TyOf("Unresolved", 1), TyOf("Record", 1)>>
    /\ aux.inner.k = "Union"
    /\ aux.ret.k = "Union" /\ aux.ret # aux.inner

\* C9: into_union of a one-member list returns that member as it is.
C9_SingletonShortcut ==
    (Returned /\ Len(args) = 1) => ret = args[1]

C9_Witness ==
    Returned /\ args = <<TyOf("Instance", 2)>> /\ ret = TyOf("Instance", 2)

\* C10: into_union of the empty list returns Undefined; a builder that got
\* no member, or Never members only, builds Never.
C10_EmptyIsUndefined ==
    /\ UnionTypeBuilder_build(UnionTypeBuilder_default) = Ty("Never")
    /\ Returned =>
        /\ Len(args) = 0 => ret = Ty("Undefined")
        /\ (Len(args) >= 2 /\ \A i \in 1..Len(args) : args[i] = Ty("Never")) =>
                ret = Ty("Never")

C10_Witness == Returned /\ args = <<>> /\ ret = Ty("Undefined")

\* The members that decide the state of the builder on their own: Any and
\* Unknown, and the escalating kinds, given directly or through an instance.
TopLike(ty) == Resolved(ty).k \in {"Any", "Unknown"}
ErrorKind(ty) == Resolved(ty).k \in EscalatingKinds

\* C11: when the members added hold both Any and Unknown and no Error-kind
\* member comes before the first of the two, the built type is the one of
\* the two that comes first, so that [Any, Unknown] and [Unknown, Any] build
\* different types.
C11_FirstTopLikeWins ==
    (Returned /\ Len(args) >= 2) =>
        \A i \in 1..Len(args) :
            (/\ TopLike(args[i])
             /\ \A j \in 1..(i - 1) : ~TopLike(args[j]) /\ ~ErrorKind(args[j])
             /\ \E j \in (i + 1)..Len(args) :
                    TopLike(args[j]) /\ Resolved(args[j]) # Resolved(args[i]))
            => ret = Resolved(args[i])

C11_Witness ==
    /\ Returned
    /\ args = <<Ty("String"), Ty("Unknown"), TyOf("Instance", 3)>>
    /\ Resolved(args[3]) = Ty("Any")
    /\ ret = Ty("Unknown")

\* No member that decides the state of the builder on its own.
NoEscalation(types) ==
    \A i \in 1..Len(types) : ~TopLike(types[i]) /\ ~ErrorKind(types[i])

\* The number of times placeholder u is in a list.
Times(unresolved, u) ==
    Cardinality({i \in 1..Len(unresolved) : unresolved[i] = u})

\* C20: for two or more members, none of them Error, Generic, Intrinsic,
\* Namespace, Any or Unknown, directly or through an instance, into_union of
\* the members in any order gives the same outcome: Never both times, or two
\* unions with the same slots, flags, boolean pair and complex set, whose
\* unresolved lists hold the same placeholders as often, in an order that
\* follows the order of the members.
C20_OrderIndependence ==
    (pc = "done" /\ aux.op = "permuted" /\ NoEscalation(args)) =>
        /\ aux.ret.k = ret.k
        /\ ret.k \in {"Never", "Union"}
        /\ ret.k = "Union" =>
              /\ [aux.ret.v EXCEPT !.unresolved = <<>>] =
                    [ret.v EXCEPT !.unresolved = <<>>]
              /\ \A u \in 1..NumUnresolved :
                    Times(aux.ret.v.unresolved, u) = Times(ret.v.unresolved, u)

\* The same members in another order: all is equal but the unresolved list.
C20_Witness ==
    /\ pc = "done" /\ aux.op = "permuted"
    /\ args = <<TyOf("Unresolved", 1), TyOf("BooleanLiteral", TRUE), TyOf("Unresolved", 2)>>
    /\ ret.v.unresolved = <<1, 2>> /\ aux.ret.v.unresolved = <<2, 1>>
    /\ ret.v.boolean = <<TRUE, FALSE>> /\ aux.ret.v.boolean = ret.v.boolean

----------------------------------------------------------------------------
(* Claims about UnionType and LiteralAble, checked under SpecUnionType *)

Slots == {unionType.string, unionType.number, unionType.bigint, unionType.symbol}

RECURSIVE AddTimes(_, _, _)
\* self after n calls of add(literal)
AddTimes(self, literal, n) ==
    IF n = 0 THEN self ELSE AddTimes(LiteralAble_add(self, literal), literal, n - 1)

\* The member added last is a literal, and the one added before it.
LiteralRepeated ==
    /\ Len(fed') = Len(fed) + 1 /\ Len(fed) >= 1
    /\ fed'[Len(fed')] = fed[Len(fed)]
    /\ fed[Len(fed)].k \in LiteralKinds

\* C13: a literal added to a LiteralAble any number of times, n >= 1, leaves
\* it as one add of that literal does; in a run, adding again the literal
\* added last changes nothing.
C13_WideningIdempotent ==
    /\ [](\A slot \in Slots : \A l \in 1..NumLits : \A n \in 1..MaxAdds :
            AddTimes(slot, l, n) = LiteralAble_add(slot, l))
    /\ [][LiteralRepeated => unionType' = unionType]_vars

C13_Witness ==
    /\ fed = <<TyOf("NumericLiteral", 1), TyOf("NumericLiteral", 2),
               TyOf("NumericLiteral", 2)>>
    /\ unionType.number = Literals({1, 2})

\* The four literal-able slots, with the general kind and the literal kind
\* each stands for.
SlotKinds ==
    {[slot |-> "string", any |-> "String", literal |-> "StringLiteral"],
     [slot |-> "number", any |-> "Number", literal |-> "NumericLiteral"],
     [slot |-> "bigint", any |-> "BigInt", literal |-> "BigIntLiteral"],
     [slot |-> "symbol", any |-> "Symbol", literal |-> "UniqueSymbol"]}

Count(tys, kind) == Cardinality({i \in 1..Len(tys) : tys[i].k = kind})

\* for_each handing over tys gives one general-kind member and no literal
\* for every slot that is Any.
OneGeneralMember(tys) ==
    \A sk \in SlotKinds :
        unionType[sk.slot] = LiteralAble_Any =>
            Count(tys, sk.any) = 1 /\ Count(tys, sk.literal) = 0

\* C14: add of String, Number, BigInt or Symbol makes the slot Any whatever
\* literals it held; a slot that is Any stays Any under every later add; and
\* for_each emits one general-kind member and no literal for such a slot.
C14_AnyAbsorbs ==
    /\ [][\A sk \in SlotKinds :
            /\ fed' = Append(fed, Ty(sk.any)) => unionType'[sk.slot] = LiteralAble_Any
            /\ unionType[sk.slot] = LiteralAble_Any =>
                    unionType'[sk.slot] = LiteralAble_Any]_vars
    /\ [](\A tys \in UnionType_for_each(unionType) : OneGeneralMember(tys))
    /\ [](pc = "emitted" => OneGeneralMember(emitted))

C14_Witness ==
    /\ pc = "emitted"
    /\ fed = <<TyOf("StringLiteral", 1), Ty("String"), TyOf("StringLiteral", 2)>>
    /\ unionType.string = LiteralAble_Any
    /\ emitted = <<Ty("String")>>

\* The complex shapes a union is to hold: the kinds of the complex arm
\* without Namespace.
ComplexShapes == ComplexKinds \ {"Namespace"}

\* The kinds UnionType::add is to store.
StoredKinds ==
    PrimitiveKinds \cup LiteralKinds \cup {"BooleanLiteral"} \cup ComplexShapes
        \cup {"Unresolved"}

\* C15 as stated: add of a UnionType fails fast on a member that is no
\* primitive singleton, literal, boolean literal, Record, Function,
\* Constructor, Interface, Intersection or Unresolved: a Namespace, Generic,
\* Intrinsic, Instance, Union, Never, Error, Any or Unknown handed to it stops
\* the program and is not stored.
C15_FailFast ==
    [][(Len(fed') = Len(fed) + 1 /\ fed'[Len(fed')].k \notin StoredKinds) =>
          pc' = "panicked" /\ unionType' = unionType]_vars

\* What the code does instead: Namespace is in the arm of the complex kinds
\* and is stored; every other kind outside StoredKinds fails fast.
NamespaceIsStored ==
    [][Len(fed') = Len(fed) + 1 =>
          LET ty == fed'[Len(fed')]
          IN  /\ (ty.k \notin StoredKinds /\ ty.k # "Namespace") =>
                    pc' = "panicked" /\ unionType' = unionType
              /\ ty.k = "Namespace" =>
                    pc' = "adding" /\ ty \in unionType'.complex]_vars

IsUnresolved(ty) == ty.k = "Unresolved"

\* The placeholders of the Unresolved members of tys, in order.
UnresolvedOf(tys) ==
    LET picked == SelectSeq(tys, IsUnresolved)
    IN  [i \in 1..Len(picked) |-> picked[i].v]

\* The members handed to add that are stored by value: complex members, and
\* literals whose slot was not widened.
StoredOnce ==
    {fed[i] : i \in {n \in 1..Len(fed) : fed[n].k \in ComplexKinds}}
    \cup {fed[i] : i \in {n \in 1..Len(fed) :
                \E sk \in SlotKinds :
                    fed[n].k = sk.literal /\ unionType[sk.slot] # LiteralAble_Any}}

\* C16: the unresolved list is the subsequence of the Unresolved members
\* added, in the order of the adds and with every repeat, and for_each hands
\* them over so; a complex member or a literal added several times is held,
\* and handed over, once.
C16_UnresolvedKeptInOrder ==
    /\ unionType.unresolved = UnresolvedOf(fed)
    /\ \A tys \in UnionType_for_each(unionType) :
            /\ UnresolvedOf(tys) = UnresolvedOf(fed)
            /\ \A ty \in StoredOnce : Cardinality({i \in 1..Len(tys) : tys[i] = ty}) = 1
    /\ pc = "emitted" => UnresolvedOf(emitted) = UnresolvedOf(fed)

C16_Witness ==
    /\ pc = "emitted"
    /\ fed = <<TyOf("Unresolved", 2), TyOf("Unresolved", 1), TyOf("Unresolved", 2)>>
    /\ emitted = fed
    /\ unionType.unresolved = <<2, 1, 2>>

----------------------------------------------------------------------------
(* Claims about the builder, checked under SpecBuilder *)

Terminal == {"Error", "Any", "Unknown"}

\* C5: a builder in state Error, Any or Unknown is left as it is by every add,
\* and build returns that terminal type.
C5_BuilderAbsorption ==
    [][(pc = "adding" /\ builder.tag \in Terminal) =>
          /\ builder' = builder
          /\ pc' = "built" => built' = Ty(builder.tag)]_vars

\* An escalating member was handed to a builder that stayed Any.
C5_Witness ==
    /\ pc = "built" /\ built = Ty("Any")
    /\ builder.tag = "Any" /\ last = TyOf("Generic", 1) /\ nadds = 3

\* Flattening a built union into any builder gives the same builder whatever
\* order for_each enumerates the hash sets in, which is why
\* UnionTypeBuilder_add may take any one of them.
OrderIndependentFlattening ==
    built.k = "Union" =>
        \A tys \in UnionType_for_each(built.v) :
            AddEach(builder, tys) = UnionTypeBuilder_add(builder, built)

\* C8: feeding what for_each emits for a built union, in any of its orders, to
\* a fresh builder gives a Compound holding an equal UnionType.
C8_RoundTrip ==
    built.k = "Union" =>
        \A tys \in UnionType_for_each(built.v) :
            AddEach(UnionTypeBuilder_default, tys) = Compound(built.v)

C8_Witness ==
    /\ pc = "built" /\ built.k = "Union"
    /\ built.v.string = Literals(1..2)
    /\ built.v.boolean = <<TRUE, FALSE>>
    /\ Cardinality(UnionType_for_each(built.v)) = 2

\* The members of a UnionType: what for_each hands over, in any order.
Members(union) ==
    UNION {{tys[i] : i \in 1..Len(tys)} : tys \in UnionType_for_each(union)}

\* C12: whatever was added, unions and instances of unions included, the
\* UnionType held by the builder has no Union member, and for_each of a built
\* union emits no Union.
C12_NoNestedUnions ==
    /\ \A ty \in Members(builder.compound) : ty.k # "Union"
    /\ \A ty \in builder.compound.complex : ty.k # "Union"
    /\ built.k = "Union" => \A ty \in Members(built.v) : ty.k # "Union"

\* A built union and an instance of a union were added to one builder.
C12_Witness ==
    /\ pc = "adding" /\ nadds = 3
    /\ built.k = "Union" /\ built.v.complex # {}
    /\ last = TyOf("Instance", 5) /\ Resolved(last).k = "Union"
    /\ builder.tag = "Compound"
    /\ builder.compound.complex = built.v.complex
    /\ builder.compound.string = LiteralAble_Any

\* Never < Compound < Error, Any, Unknown
Rank(tag) ==
    CASE tag = "Never" -> 0
      [] tag = "Compound" -> 1
      [] tag \in Terminal -> 2
      [] OTHER -> -1

\* after holds what before holds: Any stays Any, and a literal set loses no
\* element unless the slot becomes Any.
SlotGrows(before, after) ==
    IF before.tag = "Any" THEN after.tag = "Any"
    ELSE after.tag = "Any" \/ (after.tag = before.tag /\ before.set \subseteq after.set)
                          \/ (before.tag = "Vacant" /\ after.tag = "Literals")

UnionTypeGrows(before, after) ==
    /\ \A sk \in SlotKinds : SlotGrows(before[sk.slot], after[sk.slot])
    /\ before.object => after.object
    /\ before.void => after.void
    /\ before.null => after.null
    /\ before.undefined => after.undefined
    /\ before.boolean[1] => after.boolean[1]
    /\ before.boolean[2] => after.boolean[2]
    /\ before.complex \subseteq after.complex
    /\ Len(before.unresolved) <= Len(after.unresolved)
    /\ SubSeq(after.unresolved, 1, Len(before.unresolved)) = before.unresolved

\* C18: an add never moves the builder down the order Never < Compound <
\* Error, Any, Unknown, nor out of a terminal state, and between two Compound
\* states the UnionType only grows: no flag or boolean half is cleared, no
\* literal is lost but by widening to Any, the complex set and the
\* unresolved list do not shrink.
C18_BuilderMonotone ==
    [][nadds' = nadds + 1 =>
          /\ Rank(builder.tag) >= 0 /\ Rank(builder'.tag) >= Rank(builder.tag)
          /\ builder.tag \in Terminal => builder'.tag = builder.tag
          /\ (builder.tag = "Compound" /\ builder'.tag = "Compound") =>
                UnionTypeGrows(builder.compound, builder'.compound)]_vars

\* The third add to a Compound builder set a slot to Any.
C18_Witness ==
    /\ pc = "adding" /\ nadds = 3 /\ last = Ty("Number")
    /\ builder.tag = "Compound"
    /\ builder.compound.number = LiteralAble_Any
    /\ builder.compound.null /\ builder.compound.unresolved = <<1>>

\* A union that holds a Namespace, as direct calls of UnionType::add make it.
NamespaceUnion ==
    TyOf("Union", UnionType_add(UnionType_default, TyOf("Namespace", 1)))

\* No fail-fast happened, and no Namespace got among the complex members.
Sound(b) ==
    /\ b.tag # "Panicked"
    /\ \A ty \in b.compound.complex : ty.k \in ComplexShapes

\* C19: whatever is added to a builder, of any kind, directly, through an
\* instance or inside a union, UnionType::add is handed only kinds it
\* stores: unreachable! is never executed, and neither the builder nor a
\* built union holds a Namespace among the complex members, not even after
\* the add of a union that holds one.
C19_NoFailFast ==
    /\ Sound(builder)
    /\ built.k = "Union" => \A ty \in built.v.complex : ty.k \in ComplexShapes
    /\ built.k \in {"<none>", "Union", "Never"} \cup Terminal
    /\ Sound(UnionTypeBuilder_add(builder, NamespaceUnion))

\* An instance of an instance joined a Compound builder after a complex
\* member, and the union was built.
C19_Witness ==
    /\ pc = "built" /\ nadds = 2
    /\ last = TyOf("Instance", 4) /\ Resolved(last).k = "StringLiteral"
    /\ built.k = "Union"
    /\ built.v.complex = {TyOf("Interface", 1)}
    /\ built.v.string = Literals({1})

----------------------------------------------------------------------------
(* Claims about get_union_property, checked under SpecProperty *)

PropertyTaken == pc = "done" /\ aux.op = "property"

\* C7 as stated: get_union_property(into_union([A, B]), k) is
\* into_union([get_property(A, k), get_property(B, k)]) whenever into_union([A, B])
\* is a Union.
C7_PropertyDistribution ==
    PropertyTaken => property.ret = aux.ret

\* C7, amended: the equality holds whenever for_each of the union hands over
\* exactly A, then B.
C7_PropertyOfEmittedPair ==
    (PropertyTaken /\ property.members = args) => property.ret = aux.ret

C7_Witness ==
    /\ PropertyTaken
    /\ args = <<Ty("String"), Ty("Null")>> /\ property.members = args
    /\ get_property(Ty("String"), "key") = Ty("Number")
    /\ get_property(Ty("Null"), "key") = TyOf("Unresolved", 1)
    /\ property.ret = aux.ret /\ property.ret.k = "Union"

----------------------------------------------------------------------------
(* Claims about exec_while_statement, checked under SpecWhile *)

Executed == pc = "exec" /\ ctrl = <<>>

\* C6: after a while statement whose body assigns a type to x, x holds
\* into_union of its state before the loop and the assigned type, not the
\* assigned type alone.
C6_LoopMerge ==
    \A a \in Assignments :
        (Executed /\ node = While(Literal, a)) =>
            /\ Len(scopes) = 1
            /\ Lookup(scopes, a.var) = into_union(<<entry[a.var], a.ty>>)

C6_Witness ==
    /\ Executed
    /\ entry["x"] = Ty("String")
    /\ node = While(Literal, [t |-> "assign", var |-> "x", ty |-> Ty("Number")])
    /\ Lookup(scopes, "x") = into_union(<<Ty("String"), Ty("Number")>>)
    /\ Lookup(scopes, "x") # Ty("Number")

\* The kinds of the frames of a scope stack, bottom first.
Kinds(stack) == [i \in 1..Len(stack) |-> stack[i].kind]

RECURSIVE Frames(_)
\* The frames the while statements under execution have pushed and not yet
\* popped, outermost first: Indeterminate between the first push and the
\* first pop, Loop between the second push and the second pop.
Frames(calls) ==
    IF calls = <<>> THEN <<>>
    ELSE LET call == Head(calls)
             frame == IF call.node.t = "while" /\ call.step \in {2, 3}
                          THEN <<"Indeterminate">>
                      ELSE IF call.node.t = "while" /\ call.step \in {5, 6}
                          THEN <<"Loop">>
                      ELSE <<>>
         IN  frame \o Frames(Tail(calls))

Top(stack) == stack[Len(stack)]
Below(stack) == SubSeq(stack, 1, Len(stack) - 1)

\* C17: at every step of a while statement, nested in the test or body of
\* another or not, the scope stack is the stack at entry plus the one frame
\* the statement has pushed: the Indeterminate frame from before the test
\* until after it, the Loop frame from before the body until after it, never
\* both; each pop removes the frame on top, which is the one the statement
\* pushed; and on return the stack is the stack at entry.
C17_ScopeStackDiscipline ==
    /\ [](Kinds(scopes) = <<"Normal">> \o Frames(ctrl))
    /\ [](At("while", 2) => Top(scopes).kind = "Indeterminate")
    /\ [](At("while", 5) => Top(scopes).kind = "Loop")
    /\ [](Executed => Kinds(scopes) = <<"Normal">>)
    /\ [][/\ Len(scopes') > Len(scopes) =>
                /\ At("while", 1) \/ At("while", 4)
                /\ Below(scopes') = scopes
                /\ Top(scopes').kind =
                        IF At("while", 1) THEN "Indeterminate" ELSE "Loop"
          /\ Len(scopes') < Len(scopes) =>
                /\ At("while", 3) \/ At("while", 6)
                /\ Kinds(scopes') = Kinds(Below(scopes))
                /\ Below(scopes') = Below(Below(scopes))
                /\ Top(scopes).kind =
                        IF At("while", 3) THEN "Indeterminate" ELSE "Loop"
          /\ (At("while", 6) /\ Len(ctrl') < Len(ctrl)) =>
                Kinds(scopes') = <<"Normal">> \o Frames(Below(ctrl))]_vars

\* A while statement in the test of another is about to pop its Loop frame.
C17_Witness ==
    /\ Len(ctrl) = 3
    /\ ctrl[1].node.t = "while" /\ ctrl[1].step = 3
    /\ ctrl[2].node.t = "call"
    /\ ctrl[3].node.t = "while" /\ ctrl[3].step = 6
    /\ Kinds(scopes) = <<"Normal", "Indeterminate", "Loop">>

====
